---- MODULE Spec2Model ----
(***************************************************************************)
(* Model of steamgrid.go: the artwork resolution, cache/backup and overlay *)
(* pipeline (tryDownload, getGoogleImage, getImageAlternatives,            *)
(* DownloadImage, LoadOverlays, ApplyOverlay and the loop of               *)
(* startApplication).                                                      *)
(*                                                                         *)
(* Strings are sequences of one-character strings.  Image bytes are        *)
(* records [base, layers]: the fetched body and the overlay images that    *)
(* were composited over it, oldest first.  A file is its bytes, or Absent. *)
(*                                                                         *)
(* Filesystem: os.Stat and ioutil.ReadFile of an existing file succeed;    *)
(* ioutil.WriteFile either succeeds or fails before touching the file      *)
(* (the permission failure the comment of GetUsers describes).             *)
(***************************************************************************)
EXTENDS Integers, Sequences, FiniteSets, TLC

VARIABLES
    dir,          \* listing of "overlays by category", as ioutil.ReadDir returns it
    overlays,     \* LoadOverlays(dir): normalized name -> overlay image
    games,        \* game id -> Game record of the current run
    files,        \* game id -> [work, backup]: "{id}.jpg" and "{id} (original).jpg"
    pc,           \* position of startApplication
    cur,          \* the game of the current loop iteration
    ret,          \* game id -> what DownloadImage returned in this run
    notFounds,    \* startApplication's notFounds
    searchFounds, \* startApplication's searchFounds
    run,          \* number of the current run of the program
    trace,        \* calls made for the current game, in order
    fetched,      \* game id -> bytes the last successful resolution fetched
    settled,      \* game id -> count of completed pipelines, files after the first
    overlayCalls, \* game id -> ApplyOverlay calls in this run
    resIn,        \* resolution alone: the game's name and the sources' replies
    resOut,       \* resolution alone: what DownloadImage returned
    status,       \* status classification: the status code answered
    outcome,      \* status classification: what tryDownload returned
    tagIn,        \* tag matching: the tag
    fileIn,       \* tag matching: the overlay file name
    matched       \* tag matching: "pending", "yes" or "no"

vars == <<dir, overlays, games, files, pc, cur, ret, notFounds, searchFounds,
          run, trace, fetched, settled, overlayCalls, resIn, resOut,
          status, outcome, tagIn, fileIn, matched>>

pipeVars == <<dir, overlays, games, files, pc, cur, ret, notFounds,
              searchFounds, run, trace, fetched, settled, overlayCalls>>
resVars == <<resIn, resOut>>
statusVars == <<status, outcome>>
normVars == <<tagIn, fileIn, matched>>

(***************************************************************************)
(* Bounds                                                                  *)
(***************************************************************************)
NGames == 2
MaxRuns == 2
MaxTags == 2
MaxLen == 4
MaxStatus == 599

(***************************************************************************)
(* Strings                                                                 *)
(***************************************************************************)
Upper == <<"A","B","C","D","E","F","G","H","I","J","K","L","M",
           "N","O","P","Q","R","S","T","U","V","W","X","Y","Z">>
Lower == <<"a","b","c","d","e","f","g","h","i","j","k","l","m",
           "n","o","p","q","r","s","t","u","v","w","x","y","z">>

\* strings.ToLower, one character
ToLowerChar(c) ==
    IF \E i \in 1..Len(Upper) : Upper[i] = c
    THEN Lower[CHOOSE i \in 1..Len(Upper) : Upper[i] = c]
    ELSE c

\* strings.ToLower
ToLower(s) == [i \in 1..Len(s) |-> ToLowerChar(s[i])]

\* strings.TrimRight(s, cutset): drops every trailing character of the cutset
RECURSIVE TrimRight(_, _)
TrimRight(s, cutset) ==
    IF Len(s) > 0 /\ s[Len(s)] \in cutset
    THEN TrimRight(SubSeq(s, 1, Len(s) - 1), cutset)
    ELSE s

\* strings.TrimSuffix(s, suffix): drops the suffix once, if s ends with it
TrimSuffix(s, suffix) ==
    IF Len(suffix) <= Len(s)
       /\ SubSeq(s, Len(s) - Len(suffix) + 1, Len(s)) = suffix
    THEN SubSeq(s, 1, Len(s) - Len(suffix))
    ELSE s

\* filepath.Ext: the suffix beginning at the final dot, or the empty string
Ext(path) ==
    IF \E i \in 1..Len(path) : path[i] = "."
    THEN LET d == CHOOSE i \in 1..Len(path) :
                      /\ path[i] = "."
                      /\ \A j \in (i + 1)..Len(path) : path[j] # "."
         IN SubSeq(path, d, Len(path))
    ELSE <<>>

\* strings.TrimSuffix(s, "s"): what stripping a single trailing "s" would be
TagNameOneS(tag) == TrimSuffix(ToLower(tag), <<"s">>)

\* ApplyOverlay, line 372: the normalized tag name
TagName(tag) == TrimRight(ToLower(tag), {"s"})

OverlayNameOneS(fileName) ==
    TrimSuffix(ToLower(TrimSuffix(fileName, Ext(fileName))), <<"s">>)

\* LoadOverlays, lines 354-356: the normalized overlay name of a file
OverlayName(fileName) ==
    TrimRight(ToLower(TrimSuffix(fileName, Ext(fileName))), {"s"})

(***************************************************************************)
(* Overlay directory                                                       *)
(***************************************************************************)
nil == "nil"

\* A directory entry: its name and whether image.Decode accepts its content.
\* The overlay image of a file is identified by the file's name.
File(name, ok) == [name |-> name, image |-> ok]

NoOverlays == [n \in {} |-> <<>>]

\* LoadOverlays, lines 348-358: later files overwrite earlier ones
RECURSIVE loadFiles(_, _)
loadFiles(listing, acc) ==
    IF listing = <<>> THEN [overlays |-> acc, err |-> nil]
    ELSE LET file == Head(listing)
             name == OverlayName(file.name)
         IN IF ~file.image
            THEN [overlays |-> acc, err |-> "decode"]
            ELSE loadFiles(Tail(listing),
                     [n \in DOMAIN acc \cup {name} |->
                         IF n = name THEN file.name ELSE acc[n]])

\* LoadOverlays; a missing directory is the empty listing
LoadOverlays(listing) == loadFiles(listing, NoOverlays)

(***************************************************************************)
(* Image bytes                                                             *)
(***************************************************************************)
Bytes(base, layers) == [base |-> base, layers |-> layers]

\* the body of a reply, as stored
Raw(body) == Bytes(body, <<>>)

\* a file that does not exist
Absent == Bytes("absent", <<>>)

\* Game.ImageBytes == nil
NoBytes == Bytes("nil", <<>>)

\* image.Decode: fails on bytes that are no image
Decodes(bytes) == ~(bytes.base = "junk" /\ bytes.layers = <<>>)

\* ApplyOverlay, lines 384-393: the game image drawn first, the overlay
\* drawn over it, the result encoded as JPEG
Composite(bytes, overlayImage) ==
    Bytes(bytes.base, Append(bytes.layers, overlayImage))

(***************************************************************************)
(* Network                                                                 *)
(***************************************************************************)
\* What the server answers to one GET; status 0: http.Get returned an error
Reply(code, body) == [status |-> code, body |-> body]
GetFailed == Reply(0, "nil")

\* a nil *http.Response
NoResponse == Reply(0, "nil")

\* One entry of the trace: a call, its result (a status, or 1/0 for
\* yes/no) and, for a GET, the body answered
Call(op, res) == [op |-> op, res |-> res, body |-> "nil"]
Get(op, reply) == [op |-> op, res |-> reply.status, body |-> reply.body]

\* tryDownload, lines 230-245; reply is what http.Get(url) produced
tryDownload(reply) ==
    IF reply.status = 0 THEN [response |-> NoResponse, err |-> "get"]
    ELSE IF reply.status = 404 THEN [response |-> NoResponse, err |-> nil]
    ELSE IF reply.status > 400 THEN [response |-> NoResponse, err |-> "status"]
    ELSE [response |-> reply, err |-> nil]

\* getGoogleImage, lines 202-227; search is what the search request
\* produced: "fail" (request or body read failed), "none" (no match in the
\* answer) or "url" (a match)
getGoogleImage(gameName, search) ==
    IF gameName = "" THEN [url |-> "", err |-> nil]
    ELSE IF search = "fail" THEN [url |-> "", err |-> "get"]
    ELSE IF search = "url" THEN [url |-> "found", err |-> nil]
    ELSE [url |-> "", err |-> nil]

\* getImageAlternatives that goes on to the next source after a success
getImageAlternativesNoStop(game, net) ==
    LET first == tryDownload(net.akamai)
        second == tryDownload(net.steamCdn)
        google == getGoogleImage(game.Name, net.search)
        third == tryDownload(IF google.url = "" THEN GetFailed ELSE net.result)
        calls == <<Get("akamai", net.akamai), Get("steamCdn", net.steamCdn),
                   Call("getGoogleImage", IF google.url = "" THEN 0 ELSE 1),
                   Get("searchResult",
                       IF google.url = "" THEN GetFailed ELSE net.result)>>
    IN IF third.err = nil /\ third.response # NoResponse
       THEN [response |-> third.response, fromSearch |-> TRUE, err |-> nil,
             calls |-> calls]
       ELSE IF second.err = nil /\ second.response # NoResponse
       THEN [response |-> second.response, fromSearch |-> FALSE, err |-> nil,
             calls |-> calls]
       ELSE IF first.err = nil /\ first.response # NoResponse
       THEN [response |-> first.response, fromSearch |-> FALSE, err |-> nil,
             calls |-> calls]
       ELSE [response |-> NoResponse, fromSearch |-> FALSE, err |-> nil,
             calls |-> calls]

\* getImageAlternatives, lines 258-280; net holds the replies the three
\* sources and the search request would give
getImageAlternatives(game, net) ==
    LET first == tryDownload(net.akamai)
        c1 == <<Get("akamai", net.akamai)>>
    IN IF first.err = nil /\ first.response # NoResponse
       THEN [response |-> first.response, fromSearch |-> FALSE, err |-> nil,
             calls |-> c1]
       ELSE
    LET second == tryDownload(net.steamCdn)
        c2 == Append(c1, Get("steamCdn", net.steamCdn))
    IN IF second.err = nil /\ second.response # NoResponse
       THEN [response |-> second.response, fromSearch |-> FALSE, err |-> nil,
             calls |-> c2]
       ELSE
    LET google == getGoogleImage(game.Name, net.search)
        c3 == Append(c2, Call("getGoogleImage",
                              IF google.url = "" THEN 0 ELSE 1))
    IN IF google.err # nil
       THEN [response |-> second.response, fromSearch |-> TRUE,
             err |-> google.err, calls |-> c3]
       ELSE
    LET third == tryDownload(IF google.url = "" THEN GetFailed ELSE net.result)
        c4 == Append(c3, Get("searchResult",
                             IF google.url = "" THEN GetFailed ELSE net.result))
    IN IF third.err = nil /\ third.response # NoResponse
       THEN [response |-> third.response, fromSearch |-> TRUE, err |-> nil,
             calls |-> c4]
       ELSE [response |-> NoResponse, fromSearch |-> FALSE, err |-> nil,
             calls |-> c4]

(***************************************************************************)
(* Cache and backup                                                        *)
(***************************************************************************)
\* filepath.Join(gridDir, game.Id+".jpg")
Filename(id) == <<id, ".jpg">>

\* Game.ImagePath == ""
NoPath == <<>>

Returned(found, fromSearch, err, game, fs, calls) ==
    [found |-> found, fromSearch |-> fromSearch, err |-> err, game |-> game,
     fs |-> fs, calls |-> calls]

\* the backup read from the working file when there is one
DownloadFromBackupReadsWork(g0, fs) ==
    Returned(TRUE, FALSE, nil,
             [g0 EXCEPT !.ImageBytes =
                 IF fs.work # Absent THEN fs.work ELSE fs.backup],
             fs, <<Call("statBackup", 1)>>)

\* the backup copied back over the working file
DownloadFromBackupRestores(g0, fs) ==
    Returned(TRUE, FALSE, nil, [g0 EXCEPT !.ImageBytes = fs.backup],
             [fs EXCEPT !.work = fs.backup], <<Call("statBackup", 1)>>)

\* DownloadImage, lines 291-295: the backup exists and is loaded
DownloadFromBackup(g0, fs) ==
    Returned(TRUE, FALSE, nil, [g0 EXCEPT !.ImageBytes = fs.backup], fs,
             <<Call("statBackup", 1)>>)

\* DownloadImage, lines 297-306: an image without a backup is loaded and
\* backed up
DownloadFromWork(g0, fs, io) ==
    LET g1 == [g0 EXCEPT !.ImageBytes = fs.work]
        calls == <<Call("statBackup", 0), Call("statWork", 1),
                   Call("writeBackup", IF io.backup THEN 1 ELSE 0)>>
    IN IF io.backup
       THEN Returned(TRUE, FALSE, nil, g1,
                     [fs EXCEPT !.backup = g1.ImageBytes], calls)
       ELSE Returned(TRUE, FALSE, "write", g1, fs, calls)

\* the backup written before the working file
DownloadFromSourcesBackupFirst(g0, fs, net, io) ==
    LET alt == getImageAlternatives(g0, net)
        stats == <<Call("statBackup", 0), Call("statWork", 0)>>
    IN IF alt.response = NoResponse \/ alt.err # nil
       THEN Returned(FALSE, FALSE, alt.err, g0, fs, stats \o alt.calls)
       ELSE
    LET g1 == [g0 EXCEPT !.ImageBytes = Raw(alt.response.body)]
        c1 == (stats \o alt.calls)
                  \o <<Call("writeBackup", IF io.backup THEN 1 ELSE 0)>>
        c2 == Append(c1, Call("writeWork", IF io.work THEN 1 ELSE 0))
    IN IF ~io.backup
       THEN Returned(TRUE, FALSE, "write", g1, fs, c1)
       ELSE IF ~io.work
       THEN Returned(TRUE, alt.fromSearch, "write", g1,
                     [fs EXCEPT !.backup = g1.ImageBytes], c2)
       ELSE Returned(TRUE, alt.fromSearch, nil, g1,
                     [work |-> g1.ImageBytes, backup |-> g1.ImageBytes], c2)

\* DownloadImage, lines 308-320: nothing is cached; the sources are tried
\* and the body is written to the working file, then to the backup
DownloadFromSources(g0, fs, net, io) ==
    LET alt == getImageAlternatives(g0, net)
        stats == <<Call("statBackup", 0), Call("statWork", 0)>>
    IN IF alt.response = NoResponse \/ alt.err # nil
       THEN Returned(FALSE, FALSE, alt.err, g0, fs, stats \o alt.calls)
       ELSE
    LET g1 == [g0 EXCEPT !.ImageBytes = Raw(alt.response.body)]
        c1 == (stats \o alt.calls)
                  \o <<Call("writeWork", IF io.work THEN 1 ELSE 0)>>
        c2 == Append(c1, Call("writeBackup", IF io.backup THEN 1 ELSE 0))
    IN IF ~io.work
       THEN Returned(TRUE, FALSE, "write", g1, fs, c1)
       ELSE IF ~io.backup
       THEN Returned(TRUE, alt.fromSearch, "write", g1,
                     [fs EXCEPT !.work = g1.ImageBytes], c2)
       ELSE Returned(TRUE, alt.fromSearch, nil, g1,
                     [work |-> g1.ImageBytes, backup |-> g1.ImageBytes], c2)

\* DownloadImage, lines 285-321.  fs: the game's two files; net: the replies
\* of the sources; io: whether the write of each file succeeds
DownloadImage(game, fs, net, io) ==
    LET g0 == [game EXCEPT !.ImagePath = Filename(game.Id)]
    IN IF fs.backup # Absent THEN DownloadFromBackup(g0, fs)
       ELSE IF fs.work # Absent THEN DownloadFromWork(g0, fs, io)
       ELSE DownloadFromSources(g0, fs, net, io)

(***************************************************************************)
(* Overlays                                                                *)
(***************************************************************************)
\* every match composited over the bytes loaded, not over the previous result
applyTagsNotCumulative(bytes, tags, ovs) ==
    LET hits == {i \in 1..Len(tags) : TagName(tags[i]) \in DOMAIN ovs}
    IN IF hits = {} THEN [bytes |-> bytes, err |-> nil]
       ELSE IF ~Decodes(bytes) THEN [bytes |-> bytes, err |-> "decode"]
       ELSE LET last == CHOOSE i \in hits : \A j \in hits : j <= i
            IN [bytes |-> Composite(bytes, ovs[TagName(tags[last])]),
                err |-> nil]

\* ApplyOverlay, lines 370-394: the loop over the tags
RECURSIVE applyTags(_, _, _)
applyTags(bytes, tags, ovs) ==
    IF tags = <<>> THEN [bytes |-> bytes, err |-> nil]
    ELSE LET tagName == TagName(Head(tags))
         IN IF tagName \notin DOMAIN ovs
            THEN applyTags(bytes, Tail(tags), ovs)
            ELSE IF ~Decodes(bytes)
            THEN [bytes |-> bytes, err |-> "decode"]
            ELSE applyTags(Composite(bytes, ovs[tagName]), Tail(tags), ovs)

\* the result saved over the backup as well
saveResultOverBackup(g1, fs, ioWork) ==
    IF ~ioWork
    THEN [err |-> "write", game |-> g1, fs |-> fs,
          calls |-> <<Call("overlayWrite", 0)>>]
    ELSE [err |-> nil, game |-> g1,
          fs |-> [work |-> g1.ImageBytes, backup |-> g1.ImageBytes],
          calls |-> <<Call("overlayWrite", 1)>>]

\* ApplyOverlay, line 396: the buffer is written to game.ImagePath
saveResult(g1, fs, ioWork) ==
    IF ~ioWork
    THEN [err |-> "write", game |-> g1, fs |-> fs,
          calls |-> <<Call("overlayWrite", 0)>>]
    ELSE [err |-> nil, game |-> g1,
          fs |-> [fs EXCEPT !.work = g1.ImageBytes],
          calls |-> <<Call("overlayWrite", 1)>>]

\* ApplyOverlay, lines 365-397.  ioWork: whether the write succeeds
ApplyOverlay(game, ovs, fs, ioWork) ==
    IF game.ImagePath = NoPath \/ game.ImageBytes = NoBytes
    THEN [err |-> nil, game |-> game, fs |-> fs, calls |-> <<>>]
    ELSE LET loop == applyTags(game.ImageBytes, game.Tags, ovs)
             g1 == [game EXCEPT !.ImageBytes = loop.bytes]
         IN IF loop.err # nil
            THEN [err |-> loop.err, game |-> g1, fs |-> fs,
                  calls |-> <<Call("decode", 0)>>]
            ELSE saveResult(g1, fs, ioWork)

(***************************************************************************)
(* Inputs                                                                  *)
(***************************************************************************)
\* Game ids; game names: a game known from sharedconfig.vdf only has the
\* empty name (line 186)
GameIds == 1..NGames
Names == {"", "Team Fortress 2"}

TagAction == <<"A","c","t","i","o","n">>
TagFavorite == <<"F","a","v","o","r","i","t","e">>
TagPool == {TagAction, TagFavorite}
TagSeqs == UNION {[1..n -> TagPool] : n \in 0..MaxTags}

ActionPng == <<"a","c","t","i","o","n",".","p","n","g">>
FavoritesPng == <<"f","a","v","o","r","i","t","e","s",".","p","n","g">>
ReadmeTxt == <<"r","e","a","d","m","e",".","t","x","t">>
Dirs == { <<>>,
          <<File(ActionPng, TRUE)>>,
          <<File(ActionPng, TRUE), File(FavoritesPng, TRUE)>>,
          <<File(ActionPng, TRUE), File(ReadmeTxt, FALSE)>> }

\* the cache states a run may start from
CacheStates == [work : {Absent, Raw("old")}, backup : {Absent, Raw("orig")}]

\* what one source can answer; body is the image that source serves
Replies(body) == { GetFailed, Reply(404, "junk"), Reply(500, "junk"),
                   Reply(400, "junk"), Reply(200, body), Reply(200, "junk") }
Nets == [akamai : Replies("akamai"), steamCdn : Replies("steamCdn"),
         search : {"fail", "none", "url"}, result : Replies("search")]
Ios == [work : BOOLEAN, backup : BOOLEAN]

\* the replies the runs of the whole program are explored with
PipeNets == [akamai : {Reply(404, "junk"), Reply(500, "junk"),
                       Reply(200, "akamai"), Reply(200, "junk")},
             steamCdn : {Reply(404, "junk"), Reply(200, "steamCdn")},
             search : {"fail", "url"},
             result : {Reply(404, "junk"), Reply(200, "search")}]
Offline == [akamai |-> GetFailed, steamCdn |-> GetFailed, search |-> "fail",
            result |-> GetFailed]

\* The replies and write results a call of DownloadImage is tried with: a
\* call that finds a cached file is tried with one network only
NetsFor(fs) == IF fs.backup # Absent \/ fs.work # Absent THEN {Offline} ELSE PipeNets
IosFor(fs) == IF fs.backup # Absent THEN {[work |-> TRUE, backup |-> TRUE]}
              ELSE IF fs.work # Absent THEN [work : {TRUE}, backup : BOOLEAN]
              ELSE Ios

\* a Game as GetGames creates it
NewGame(id, name, tags) ==
    [Id |-> id, Name |-> name, Tags |-> tags,
     ImagePath |-> NoPath, ImageBytes |-> NoBytes]

NotCalled == [called |-> FALSE, found |-> FALSE, fromSearch |-> FALSE, err |-> nil]

(***************************************************************************)
(* startApplication                                                        *)
(***************************************************************************)
IdleRes == /\ resIn = [name |-> "", net |-> Offline]
           /\ resOut = [called |-> FALSE]
IdleStatus == /\ status = 0
              /\ outcome = "idle"
IdleNorm == /\ tagIn = <<>>
            /\ fileIn = <<>>
            /\ matched = "idle"

\* the state of a run before its first step, for the games chosen
Fresh ==
    /\ overlays = NoOverlays
    /\ pc = "start"
    /\ cur = 0
    /\ ret = [id \in DOMAIN games |-> NotCalled]
    /\ notFounds = <<>>
    /\ searchFounds = <<>>
    /\ run = 1
    /\ trace = <<>>
    /\ fetched = [id \in DOMAIN games |-> NoBytes]
    /\ settled = [id \in DOMAIN games |->
                    [n |-> 0, work |-> Absent, backup |-> Absent]]
    /\ overlayCalls = [id \in DOMAIN games |-> 0]

\* One game with any name, tags and cache state, and any overlay directory
Init ==
    /\ dir \in Dirs
    /\ \E name \in Names, tags \in TagSeqs :
           games = [id \in {1} |-> NewGame(id, name, tags)]
    /\ files \in [{1} -> CacheStates]
    /\ Fresh
    /\ IdleRes
    /\ IdleStatus
    /\ IdleNorm

\* Several games, each with or without a name and with or without cached files
InitDriver ==
    /\ dir = <<File(ActionPng, TRUE)>>
    /\ \E names \in [GameIds -> Names] :
           games = [id \in GameIds |-> NewGame(id, names[id], <<TagAction>>)]
    /\ files \in [GameIds -> {[work |-> Absent, backup |-> Absent],
                              [work |-> Raw("old"), backup |-> Raw("orig")]}]
    /\ Fresh
    /\ IdleRes
    /\ IdleStatus
    /\ IdleNorm

\* startApplication, lines 459-463: the overlays are loaded, or the run ends
Start ==
    /\ pc = "start"
    /\ LET loaded == LoadOverlays(dir)
       IN /\ overlays' = loaded.overlays
          /\ pc' = IF loaded.err # nil THEN "aborted" ELSE "loop"
    /\ UNCHANGED <<dir, games, files, cur, ret, notFounds, searchFounds, run,
                   trace, fetched, settled, overlayCalls>>
    /\ UNCHANGED <<resVars, statusVars, normVars>>

\* errors abort, and a game that was not found gets an overlay all the same
AfterDownloadOverlaysAll(found, err) ==
    IF err # nil THEN "aborted" ELSE "overlay"

\* startApplication, lines 512-523: where the loop goes after DownloadImage
AfterDownload(found, err) ==
    IF err # nil THEN "aborted"
    ELSE IF ~found THEN "loop"
    ELSE "overlay"

SourceOps == {"akamai", "steamCdn", "searchResult"}

\* the last GET of a sequence of calls
LastGet(calls) ==
    calls[CHOOSE i \in DOMAIN calls :
              /\ calls[i].op \in SourceOps
              /\ \A j \in DOMAIN calls : calls[j].op \in SourceOps => j <= i]

\* startApplication, lines 497-521: one game is taken, DownloadImage is
\* called and its result classified.  A Go map is ranged over in any order.
Download(id) ==
    /\ pc = "loop"
    /\ ~ret[id].called
    /\ \E net \in NetsFor(files[id]), io \in IosFor(files[id]) :
        LET r == DownloadImage(games[id], files[id], net, io)
        IN /\ cur' = id
           /\ games' = [games EXCEPT ![id] = r.game]
           /\ files' = [files EXCEPT ![id] = r.fs]
           /\ trace' = r.calls
           /\ ret' = [ret EXCEPT ![id] =
                        [called |-> TRUE, found |-> r.found,
                         fromSearch |-> r.fromSearch, err |-> r.err]]
           /\ fetched' = IF r.found /\ \E i \in DOMAIN r.calls :
                                           r.calls[i].op \in SourceOps
                         THEN [fetched EXCEPT ![id] = Raw(LastGet(r.calls).body)]
                         ELSE fetched
           /\ pc' = AfterDownload(r.found, r.err)
           /\ notFounds' = IF r.err = nil /\ ~r.found
                           THEN Append(notFounds, id)
                           ELSE notFounds
           /\ searchFounds' = IF r.err = nil /\ r.found /\ r.fromSearch
                              THEN Append(searchFounds, id)
                              ELSE searchFounds
    /\ UNCHANGED <<dir, overlays, run, settled, overlayCalls>>
    /\ UNCHANGED <<resVars, statusVars, normVars>>

\* startApplication, lines 523-526: ApplyOverlay on the found game
Overlay ==
    /\ pc = "overlay"
    /\ \E ioWork \in BOOLEAN :
        LET r == ApplyOverlay(games[cur], overlays, files[cur], ioWork)
        IN /\ games' = [games EXCEPT ![cur] = r.game]
           /\ files' = [files EXCEPT ![cur] = r.fs]
           /\ trace' = trace \o r.calls
           /\ pc' = IF r.err # nil THEN "aborted" ELSE "loop"
           /\ settled' = IF r.err # nil THEN settled
                         ELSE IF settled[cur].n = 0
                         THEN [settled EXCEPT ![cur] =
                                 [n |-> 1, work |-> r.fs.work,
                                  backup |-> r.fs.backup]]
                         ELSE [settled EXCEPT ![cur].n = @ + 1]
    /\ overlayCalls' = [overlayCalls EXCEPT ![cur] = @ + 1]
    /\ UNCHANGED <<dir, overlays, cur, ret, notFounds, searchFounds, run, fetched>>
    /\ UNCHANGED <<resVars, statusVars, normVars>>

\* startApplication, lines 531-557: every game was processed; the report
Finish ==
    /\ pc = "loop"
    /\ \A id \in DOMAIN games : ret[id].called
    /\ pc' = "done"
    /\ UNCHANGED <<dir, overlays, games, files, cur, ret, notFounds,
                   searchFounds, run, trace, fetched, settled, overlayCalls>>
    /\ UNCHANGED <<resVars, statusVars, normVars>>

\* The program is run again on the same library, overlay directory and grid
\* directory, after it ended normally or through errorAndExit
Rerun ==
    /\ pc \in {"done", "aborted"}
    /\ run < MaxRuns
    /\ run' = run + 1
    /\ pc' = "start"
    /\ overlays' = NoOverlays
    /\ games' = [id \in DOMAIN games |->
                    NewGame(id, games[id].Name, games[id].Tags)]
    /\ cur' = 0
    /\ ret' = [id \in DOMAIN games |-> NotCalled]
    /\ notFounds' = <<>>
    /\ searchFounds' = <<>>
    /\ trace' = <<>>
    /\ overlayCalls' = [id \in DOMAIN games |-> 0]
    /\ UNCHANGED <<dir, files, fetched, settled>>
    /\ UNCHANGED <<resVars, statusVars, normVars>>

Next ==
    \/ Start
    \/ \E id \in DOMAIN games : Download(id)
    \/ Overlay
    \/ Finish
    \/ Rerun

Spec == Init /\ [][Next]_vars

\* one run of the program over several games
NextDriver ==
    \/ Start
    \/ \E id \in DOMAIN games : Download(id)
    \/ Overlay
    \/ Finish

SpecDriver == InitDriver /\ [][NextDriver]_vars

(***************************************************************************)
(* Resolution alone: DownloadImage of a game without cached files, under   *)
(* every combination of replies of the three sources                       *)
(***************************************************************************)
NoFiles == [work |-> Absent, backup |-> Absent]

\* the pipeline at rest, while a function is explored alone
IdlePipe ==
    /\ dir = <<>>
    /\ games = [id \in {1} |-> NewGame(id, "", <<>>)]
    /\ files = [id \in {1} |-> NoFiles]
    /\ Fresh

InitResolve ==
    /\ IdlePipe
    /\ resIn \in [name : Names, net : Nets]
    /\ resOut = [called |-> FALSE]
    /\ IdleStatus
    /\ IdleNorm

Resolve ==
    /\ ~resOut.called
    /\ LET r == DownloadImage(NewGame(1, resIn.name, <<>>), NoFiles, resIn.net,
                              [work |-> TRUE, backup |-> TRUE])
       IN resOut' = [called |-> TRUE, found |-> r.found,
                     fromSearch |-> r.fromSearch, err |-> r.err,
                     calls |-> r.calls, fs |-> r.fs,
                     alt |-> getImageAlternatives(NewGame(1, resIn.name, <<>>),
                                                  resIn.net)]
    /\ UNCHANGED <<pipeVars, resIn, statusVars, normVars>>

NextResolve == Resolve

SpecResolve == InitResolve /\ [][NextResolve]_vars

(***************************************************************************)
(* Status classification alone: tryDownload on every status code           *)
(***************************************************************************)
InitStatus ==
    /\ IdlePipe
    /\ resIn = [name |-> "", net |-> Offline]
    /\ resOut = [called |-> FALSE]
    /\ status \in 100..MaxStatus
    /\ outcome = "pending"
    /\ IdleNorm

\* a completed request that answered status
Classify ==
    /\ outcome = "pending"
    /\ LET r == tryDownload(Reply(status, "body"))
       IN outcome' = IF r.err # nil THEN "error"
                     ELSE IF r.response = NoResponse THEN "next"
                     ELSE "response"
    /\ UNCHANGED <<pipeVars, resVars, status, normVars>>

NextStatus == Classify

SpecStatus == InitStatus /\ [][NextStatus]_vars

(***************************************************************************)
(* Tag matching alone: one overlay file, one tag                           *)
(***************************************************************************)
Strings(alphabet, n) == UNION {[1..k -> alphabet] : k \in 0..n}

Png == <<".","p","n","g">>
Jpg == <<".","j","p","g">>
NormTags == Strings({"B", "o", "s"}, MaxLen)
             \cup { <<"D","e","m","o","s">>, <<"d","e","m","o">>,
                    <<"D","E","M","O">> }
NormFiles == {stem \o ext : stem \in Strings({"b", "o", "s"}, MaxLen),
                            ext \in {<<>>, Png}}
              \cup { <<"d","e","m","o">> \o Png, <<"D","e","m","o","s">> \o Jpg }

InitNorm ==
    /\ IdlePipe
    /\ IdleRes
    /\ IdleStatus
    /\ tagIn \in NormTags
    /\ fileIn \in NormFiles
    /\ matched = "pending"

\* LoadOverlays on a directory holding fileIn, then ApplyOverlay on a game
\* tagged tagIn: the tag selects the overlay iff a layer was composited
Match ==
    /\ matched = "pending"
    /\ LET ovs == LoadOverlays(<<File(fileIn, TRUE)>>).overlays
           game == [NewGame(1, "", <<tagIn>>) EXCEPT
                        !.ImagePath = Filename(1), !.ImageBytes = Raw("akamai")]
           r == ApplyOverlay(game, ovs, [work |-> Raw("akamai"),
                                         backup |-> Raw("akamai")], TRUE)
       IN matched' = IF r.fs.work.layers # <<>> THEN "yes" ELSE "no"
    /\ UNCHANGED <<pipeVars, resVars, statusVars, tagIn, fileIn>>

NextNorm == Match

SpecNorm == InitNorm /\ [][NextNorm]_vars

(***************************************************************************)
(* Properties                                                              *)
(***************************************************************************)
HasCall(op) == \E i \in DOMAIN trace : trace[i].op = op
Pos(op) == CHOOSE i \in DOMAIN trace : trace[i].op = op
NetworkOps == SourceOps \cup {"getGoogleImage"}

\* DownloadImage was called for cur, found nothing cached, and returned
\* found without error
ResolvedUncached ==
    /\ cur # 0
    /\ ret[cur].called /\ ret[cur].found /\ ret[cur].err = nil
    /\ Len(trace) >= 2
    /\ trace[1] = Call("statBackup", 0)
    /\ trace[2] = Call("statWork", 0)

\* ApplyOverlay has just written the working file of cur
OverlayWritten ==
    /\ cur # 0
    /\ trace # <<>>
    /\ trace[Len(trace)] = Call("overlayWrite", 1)

\* C1: once the backup of a game exists no step changes it, in this run or
\* a later one; a backup created by DownloadImage after a resolution holds
\* the body the succeeding source answered; and whenever a backup exists for
\* a game whose artwork was fetched, it holds the fetched bytes, however
\* many overlays were applied since.
C1_BackupInvariant ==
    [][\A id \in DOMAIN files :
          /\ files[id].backup # Absent => files'[id].backup = files[id].backup
          /\ ( /\ files[id].backup = Absent
               /\ files'[id].backup # Absent
               /\ \E i \in DOMAIN trace' : trace'[i].op \in SourceOps )
             => files'[id].backup = Raw(LastGet(trace').body)
          /\ (fetched'[id] # NoBytes /\ files'[id].backup # Absent)
             => files'[id].backup = fetched'[id]
      ]_vars

\* C1 witness: second run, artwork fetched in the first, overlays applied
\* in both, and the backup still holds the fetched bytes
C1_Witness ==
    /\ run = 2
    /\ settled[1].n = 2
    /\ fetched[1] # NoBytes
    /\ files[1].backup = fetched[1]
    /\ files[1].work.layers # <<>>

\* C2: once the pipeline of a game has completed (DownloadImage then
\* ApplyOverlay, both without error), every later run leaves the working
\* file and the backup byte-identical to what that first completed run left.
C2_Idempotence ==
    \A id \in DOMAIN files :
        settled[id].n >= 1 =>
            /\ files[id].work = settled[id].work
            /\ files[id].backup = settled[id].backup

\* C2 witness: the pipeline completed twice, starting from a working file
\* without backup, with an overlay composited
C2_Witness ==
    /\ settled[1].n = 2
    /\ files[1].backup = Raw("old")
    /\ files[1].work.layers # <<>>

\* C5 as the specification states it: for a game without cached files whose resolution
\* succeeds, the backup is written before the working file.
C5_BackupBeforeWorking ==
    ResolvedUncached => Pos("writeBackup") < Pos("writeWork")

\* C5 amended: for a game without cached files whose resolution succeeds
\* the calls are, in this order, the two cache checks, the fetches, the
\* write of the working file, the write of the backup and the overlay's
\* write; and whenever ApplyOverlay is about to run or has written, the
\* backup exists.
C5_WorkingBeforeBackup ==
    /\ ResolvedUncached =>
           /\ \E i \in DOMAIN trace : trace[i].op \in SourceOps
           /\ \A i \in DOMAIN trace :
                  trace[i].op \in NetworkOps => (2 < i /\ i < Pos("writeWork"))
           /\ trace[Pos("writeWork")].res = 1
           /\ Pos("writeBackup") = Pos("writeWork") + 1
           /\ trace[Pos("writeBackup")].res = 1
           /\ \A i \in DOMAIN trace :
                  trace[i].op \in {"overlayWrite", "decode"}
                      => (i = Pos("writeBackup") + 1 /\ i = Len(trace))
    /\ (pc = "overlay" \/ HasCall("overlayWrite") \/ HasCall("decode"))
           => files[cur].backup # Absent

\* C5 witness: an uncached game was resolved and its overlay written
C5_Witness == ResolvedUncached /\ OverlayWritten

\* the overlays the tags select, in tag order, repeated tags included
ExpectedLayers(tags, ovs) ==
    LET hits == SelectSeq(tags, LAMBDA t : TagName(t) \in DOMAIN ovs)
    IN [i \in 1..Len(hits) |-> ovs[TagName(hits[i])]]

\* C7: after ApplyOverlay the working file holds the loaded artwork with
\* the overlay of every matching tag composited over it in tag order, one
\* layer per matching tag occurrence, unmatched tags skipped; it is the
\* game's final buffer; tags [Action, Favorite] give favorite over action.
C7_CompositionOrder ==
    OverlayWritten =>
        /\ files[cur].work =
               Bytes(files[cur].backup.base,
                     files[cur].backup.layers
                         \o ExpectedLayers(games[cur].Tags, overlays))
        /\ files[cur].work = games[cur].ImageBytes
        /\ ( /\ games[cur].Tags = <<TagAction, TagFavorite>>
             /\ DOMAIN overlays = {TagName(TagAction), TagName(TagFavorite)} )
           => files[cur].work.layers =
                  <<overlays[TagName(TagAction)], overlays[TagName(TagFavorite)]>>

\* C7 witness: tags [Action, Favorite], both overlays, favorite over action
C7_Witness ==
    /\ OverlayWritten
    /\ games[cur].Tags = <<TagAction, TagFavorite>>
    /\ files[cur].work = Bytes(files[cur].backup.base, <<ActionPng, FavoritesPng>>)

C10_DriverOutcome ==
    [][ /\ \A id \in DOMAIN ret :
              (~ret[id].called /\ ret'[id].called) =>
                  IF ret'[id].err # nil
                  THEN /\ pc' = "aborted"
                       /\ notFounds' = notFounds
                       /\ searchFounds' = searchFounds
                  ELSE /\ notFounds' = IF ~ret'[id].found
                                       THEN Append(notFounds, id)
                                       ELSE notFounds
                       /\ searchFounds' =
                              IF ret'[id].found /\ ret'[id].fromSearch
                              THEN Append(searchFounds, id)
                              ELSE searchFounds
                       /\ pc' = IF ret'[id].found THEN "overlay" ELSE "loop"
        /\ (\E id \in DOMAIN ret : ret[id].called /\ ret[id].err # nil)
               => (ret' = ret /\ files' = files)
        /\ \A id \in DOMAIN ret :
               overlayCalls'[id] =
                   IF /\ ret'[id].called
                      /\ ret'[id].err = nil
                      /\ ret'[id].found
                      /\ ~(pc' = "overlay" /\ cur' = id)
                   THEN 1 ELSE 0
      ]_vars

\* C10 witness: a run ended with one game not found and one found by the
\* search, the latter overlaid once
C10_Witness ==
    /\ pc = "done"
    /\ Len(notFounds) = 1
    /\ Len(searchFounds) = 1
    /\ overlayCalls[searchFounds[1]] = 1
    /\ overlayCalls[notFounds[1]] = 0

\* the calls getImageAlternatives made in the resolution explored alone
ResCalls == resOut.alt.calls

SourceOrder == <<"akamai", "steamCdn", "getGoogleImage", "searchResult">>

\* a GET whose reply tryDownload hands back as a response
Succeeded(call) == tryDownload(Reply(call.res, call.body)).response # NoResponse

\* C3 as the specification states it: when a source that was tried answers 500, DownloadImage
\* returns an error and no source is tried after it.
C3_HardErrorPropagates ==
    resOut.called =>
        \A i \in DOMAIN resOut.calls :
            (resOut.calls[i].op \in SourceOps /\ resOut.calls[i].res = 500)
            => /\ resOut.err # nil
               /\ \A j \in DOMAIN resOut.calls :
                      j > i => resOut.calls[j].op \notin NetworkOps

\* C4: the sources are tried in the order akamai, steamCdn, search, each
\* only after the previous one gave no response, and none after the first
\* that gave one; with 404 from the first and an image from the second the
\* search is not invoked and the flag is false; the flag is true only when
\* the search was reached and what is returned came from it, and a response
\* comes with a true flag exactly when it is the search result's.
C4_FallbackOrder ==
    resOut.called =>
        /\ ResCalls # <<>>
        /\ \A i \in DOMAIN ResCalls : ResCalls[i].op = SourceOrder[i]
        /\ \A i \in DOMAIN ResCalls :
               (ResCalls[i].op \in SourceOps /\ Succeeded(ResCalls[i]))
                   <=> (i = Len(ResCalls) /\ resOut.alt.response # NoResponse)
        /\ (resIn.net.akamai.status = 404 /\ resIn.net.steamCdn.status = 200)
               => /\ \A i \in DOMAIN ResCalls : ResCalls[i].op # "getGoogleImage"
                  /\ ~resOut.alt.fromSearch
                  /\ ~resOut.fromSearch
                  /\ resOut.found
                  /\ resOut.alt.response = resIn.net.steamCdn
        /\ resOut.alt.fromSearch
               => /\ \E i \in DOMAIN ResCalls : ResCalls[i].op = "getGoogleImage"
                  /\ \/ resOut.alt.response = resIn.net.result
                     \/ (resOut.alt.response = NoResponse /\ resOut.alt.err # nil)
        /\ resOut.alt.response # NoResponse
               => (resOut.alt.fromSearch
                       <=> ResCalls[Len(ResCalls)].op = "searchResult")
        /\ resOut.fromSearch
               => /\ resOut.found
                  /\ ResCalls[Len(ResCalls)].op = "searchResult"
                  /\ resOut.fs.work = Raw(resIn.net.result.body)

\* C4 witness: 404 from akamai, an image from steamCdn, found without search
C4_Witness ==
    /\ resOut.called
    /\ resIn.net.akamai.status = 404
    /\ resIn.net.steamCdn = Reply(200, "steamCdn")
    /\ resOut.found
    /\ ~resOut.fromSearch
    /\ Len(ResCalls) = 2

\* C9 as the specification states it: 404 gives "try the next source", every other status of
\* 400 or more gives an error, and only a status below 400 gives a response.
C9_StatusClasses ==
    outcome \in {"next", "error", "response"} =>
        /\ status = 404 => outcome = "next"
        /\ (status >= 400 /\ status # 404) => outcome = "error"
        /\ status < 400 => outcome = "response"

\* C6 as the specification states it: a tag selects an overlay iff the two names are equal
\* after lower-casing and removing one trailing "s".
C6_OneTrailingS ==
    matched \in {"yes", "no"} =>
        (matched = "yes" <=> TagNameOneS(tagIn) = OverlayNameOneS(fileIn))

====
